---- MODULE Spec2Model ----
(***************************************************************************)
(* Model of TestEngine (tk_toolchain/tk_testengine/engine.py): the menu    *)
(* tree that post_app_init builds from the engine's command registry, the  *)
(* "menu_favourites" setting and the current context.                      *)
(*                                                                         *)
(* A Python dict is a sequence of entries with distinct keys, in insertion *)
(* order (the order iteration yields).  A Python str is a TLA+ string; its *)
(* ordering (sorted() compares code points, left to right) is computed on  *)
(* the code points listed in Codes.  The engine runs with Qt available:    *)
(* pre_app_init has created the menu bar that _build_menu adds to.         *)
(***************************************************************************)
EXTENDS Integers, Sequences, FiniteSets, TLC

\* ------------------------------------------------------------------ bounds
MaxCmds == 3        \* commands in the registry
MaxRules == 2       \* entries of the menu_favourites setting

\* ------------------------------------------------------------------ inputs
None == "None"

\* Command names the apps register (keys of Engine.commands).
Names == {"Open", "Scan", "load"}

\* The app objects, and the display_name attribute of each.
LoaderApp == "<Application tk-multi-loader2>"
PublishApp == "<Application tk-multi-publish2>"
display_name == [a \in {LoaderApp, PublishApp} |-> IF a = LoaderApp THEN "Loader" ELSE "Publisher"]

\* self.apps: instance name -> app object.
AppInstances == {"tk-multi-loader", "tk-multi-publish"}
apps == [i \in AppInstances |-> IF i = "tk-multi-loader" THEN LoaderApp ELSE PublishApp]

\* Code points of the strings that sorted() compares.
Codes(s) ==
    CASE s = "Open" -> <<79, 112, 101, 110>>
      [] s = "Scan" -> <<83, 99, 97, 110>>
      [] s = "load" -> <<108, 111, 97, 100>>
      [] s = "Loader" -> <<76, 111, 97, 100, 101, 114>>
      [] s = "Other Items" -> <<79, 116, 104, 101, 114, 32, 73, 116, 101, 109, 115>>
      [] s = "Publisher" -> <<80, 117, 98, 108, 105, 115, 104, 101, 114>>

\* properties of a registered command: the owning app (None for a framework
\* command), the "type" property and the icon.
Properties ==
    { [app |-> LoaderApp, type |-> None, icon |-> "loader.png"],
      [app |-> LoaderApp, type |-> "context_menu", icon |-> None],
      [app |-> PublishApp, type |-> None, icon |-> "publish.png"],
      [app |-> None, type |-> None, icon |-> None],
      [app |-> None, type |-> "context_menu", icon |-> None] }

\* One entry of Engine.commands: name -> {"callback": ..., "properties": ...}.
Entries ==
    { [name |-> n, details |-> [callback |-> n, properties |-> p]] :
        n \in Names, p \in Properties }

\* Engine.commands: dicts of at most MaxCmds entries, keys distinct (so never
\* more entries than names), in any insertion order.
Registries ==
    UNION { { r \in [1..k -> Entries] :
                \A i, j \in 1..k : i < j => r[i].name # r[j].name } :
            k \in 0..MaxCmds }

\* The menu_favourites setting: a list of {"app_instance": ..., "name": ...}.
FavNames == {"Open", "load"}
FavRules == { [app_instance |-> a, name |-> n] : a \in AppInstances, n \in FavNames }
FavSettings == UNION { [1..k -> FavRules] : k \in 0..MaxRules }

\* The context: str(ctx) and ctx.filesystem_locations.
Contexts ==
    { [label |-> "Shot ABC", filesystem_locations |-> fs] : fs \in {<<>>, <<"/proj/abc">>} }

\* ------------------------------------------------------------------ state
VARIABLES
    commands,            \* self.commands
    menu_favourites,     \* self.get_setting("menu_favourites", [])
    context,             \* self.context
    pc,                  \* "init" before post_app_init, "done" after it
    working,             \* __build_menu: the local copy of the commands
    favorites,           \* __build_menu: result of _extract_favorites
    context_menu_items,  \* __build_menu: result of _extract_context_menu_items
    menus,               \* __build_menu: the menu tree handed to _build_menu
    warnings,            \* self.logger.warning calls, in order
    menu_bar             \* the menus self._menu_bar holds

vars == <<commands, menu_favourites, context, pc, working, favorites,
          context_menu_items, menus, warnings, menu_bar>>

\* ------------------------------------------------------------------ str, dict
\* a < b for two Python str, given as code points.
RECURSIVE CodesLess(_, _)
CodesLess(a, b) ==
    IF b = <<>> THEN FALSE
    ELSE IF a = <<>> THEN TRUE
    ELSE IF Head(a) # Head(b) THEN Head(a) < Head(b)
    ELSE CodesLess(Tail(a), Tail(b))

StrLess(s, t) == CodesLess(Codes(s), Codes(t))

\* Insert s in the sorted list l, after the elements that are not greater.
RECURSIVE SortedInsert(_, _)
SortedInsert(l, s) ==
    IF l = <<>> THEN <<s>>
    ELSE IF StrLess(s, Head(l)) THEN <<s>> \o l
    ELSE <<Head(l)>> \o SortedInsert(Tail(l), s)

\* sorted(l) for a list of str.
RECURSIVE SortedStr(_)
SortedStr(l) ==
    IF l = <<>> THEN <<>>
    ELSE SortedInsert(SortedStr(SubSeq(l, 1, Len(l) - 1)), l[Len(l)])

\* The keys of a dict, in iteration order.
Keys(d) == [i \in 1..Len(d) |-> d[i].name]

HasKey(d, k) == \E i \in 1..Len(d) : d[i].name = k

\* d[k]
Lookup(d, k) == d[CHOOSE i \in 1..Len(d) : d[i].name = k].details

\* del d[k]
DelKey(d, k) == SelectSeq(d, LAMBDA e : e.name # k)

\* d[k] = v: replaces the value in place, or appends a new key.
SetKey(d, k, v) ==
    IF HasKey(d, k)
    THEN [i \in 1..Len(d) |-> IF d[i].name = k THEN [name |-> k, details |-> v] ELSE d[i]]
    ELSE Append(d, [name |-> k, details |-> v])

\* ------------------------------------------------------------------ menu items
\* TestEngine._create_menu_item
_create_menu_item(title, callback, icon) ==
    [type |-> "action", title |-> title, icon |-> icon, callback |-> callback]

\* TestEngine._add_command_to_menu: the menu with the command's item appended.
_add_command_to_menu(menu, name, details) ==
    Append(menu, _create_menu_item(name, details.callback, details.properties.icon))

\* TestEngine._add_separator: the menu with a separator appended.
_add_separator(menu) == Append(menu, [type |-> "separator"])

\* TestEngine._get_app_instance_name
_get_app_instance_name(details) ==
    LET app == details.properties.app
    IN  IF app = None THEN None
        ELSE IF \E i \in DOMAIN apps : apps[i] = app
             THEN CHOOSE i \in DOMAIN apps : apps[i] = app
             ELSE None

\* ------------------------------------------------------------------ extraction
\* FavouriteStep without the del: the command stays in the dict.
FavouriteStepKeep(st, fav) ==
    LET hit(i) == /\ _get_app_instance_name(st.commands[i].details) = fav.app_instance
                  /\ st.commands[i].name = fav.name
    IN  IF \E i \in 1..Len(st.commands) : hit(i)
        THEN LET e == st.commands[CHOOSE k \in 1..Len(st.commands) : hit(k)]
             IN  [commands |-> st.commands,
                  favorites |-> _add_command_to_menu(st.favorites, e.name, e.details),
                  warnings |-> st.warnings]
        ELSE [commands |-> st.commands,
              favorites |-> st.favorites,
              warnings |-> Append(st.warnings,
                  <<"Could not add favorite app %s:%s", fav.app_instance, fav.name>>)]

\* FavouriteStep with the favorite put at the head of the list.
FavouriteStepFront(st, fav) ==
    LET hit(i) == /\ _get_app_instance_name(st.commands[i].details) = fav.app_instance
                  /\ st.commands[i].name = fav.name
    IN  IF \E i \in 1..Len(st.commands) : hit(i)
        THEN LET e == st.commands[CHOOSE k \in 1..Len(st.commands) : hit(k)]
             IN  [commands |-> DelKey(st.commands, e.name),
                  favorites |-> _add_command_to_menu(<<>>, e.name, e.details)
                                    \o st.favorites,
                  warnings |-> st.warnings]
        ELSE [commands |-> st.commands,
              favorites |-> st.favorites,
              warnings |-> Append(st.warnings,
                  <<"Could not add favorite app %s:%s", fav.app_instance, fav.name>>)]

\* One turn of the loop over the favourites: the first command of the dict that
\* matches the rule moves to the favorites, or a warning is logged.
FavouriteStep(st, fav) ==
    LET hit(i) == /\ _get_app_instance_name(st.commands[i].details) = fav.app_instance
                  /\ st.commands[i].name = fav.name
    IN  IF \E i \in 1..Len(st.commands) : hit(i)
        THEN LET i == CHOOSE k \in 1..Len(st.commands) :
                          hit(k) /\ \A j \in 1..(k - 1) : ~hit(j)
                 e == st.commands[i]
             IN  [commands |-> DelKey(st.commands, e.name),
                  favorites |-> _add_command_to_menu(st.favorites, e.name, e.details),
                  warnings |-> st.warnings]
        ELSE [commands |-> st.commands,
              favorites |-> st.favorites,
              warnings |-> Append(st.warnings,
                  <<"Could not add favorite app %s:%s", fav.app_instance, fav.name>>)]

RECURSIVE FavouritesLoop(_, _)
FavouritesLoop(st, favs) ==
    IF favs = <<>> THEN st
    ELSE FavouritesLoop(FavouriteStep(st, Head(favs)), Tail(favs))

\* TestEngine._extract_favorites: the dict it leaves, the list it returns and the
\* warnings it logs.
_extract_favorites(cmds, favs) ==
    FavouritesLoop([commands |-> cmds, favorites |-> <<>>, warnings |-> <<>>], favs)

\* One turn of the loop over sorted(commands).
ContextStep(st, name) ==
    LET details == Lookup(st.commands, name)
    IN  IF details.properties.type = "context_menu"
        THEN [commands |-> DelKey(st.commands, name),
              items |-> _add_command_to_menu(st.items, name, details)]
        ELSE st

RECURSIVE ContextLoop(_, _)
ContextLoop(st, names) ==
    IF names = <<>> THEN st
    ELSE ContextLoop(ContextStep(st, Head(names)), Tail(names))

\* _extract_context_menu_items over the dict's own order, not sorted().
_extract_context_menu_items_unsorted(cmds) ==
    ContextLoop([commands |-> cmds, items |-> <<>>], Keys(cmds))

\* TestEngine._extract_context_menu_items: the dict it leaves and the list it returns.
_extract_context_menu_items(cmds) ==
    ContextLoop([commands |-> cmds, items |-> <<>>], SortedStr(Keys(cmds)))

\* ------------------------------------------------------------------ menus
\* _generate_context_menu that gives the bare "Jump to Shotgun" when there is
\* nothing else to show.
_generate_context_menu_flattened(ctx, context_menu_commands) ==
    LET jump_sg == <<_create_menu_item("Jump to Shotgun", "_jump_to_sg", None)>>
        jump_fs == IF ctx.filesystem_locations # <<>>
                   THEN Append(jump_sg,
                            _create_menu_item("Jump to File System", "_jump_to_fs", None))
                   ELSE jump_sg
    IN  IF context_menu_commands = <<>> /\ Len(jump_fs) = 1
        THEN jump_fs[1]
        ELSE [type |-> "menu", title |-> ctx.label,
              children |-> _add_separator(jump_fs) \o context_menu_commands]

\* TestEngine._generate_context_menu
_generate_context_menu(ctx, context_menu_commands) ==
    LET jump_sg == <<_create_menu_item("Jump to Shotgun", "_jump_to_sg", None)>>
        jump_fs == IF ctx.filesystem_locations # <<>>
                   THEN Append(jump_sg,
                            _create_menu_item("Jump to File System", "_jump_to_fs", None))
                   ELSE jump_sg
    IN  [type |-> "menu", title |-> ctx.label,
         children |-> _add_separator(jump_fs) \o context_menu_commands]

\* The group a command shows up under: its app's display name, or Other Items.
AppName(details) ==
    LET app == details.properties.app
    IN  IF app \in DOMAIN display_name THEN display_name[app] ELSE "Other Items"

\* commands_per_app: group name -> dict of the group's commands, both in
\* insertion order.
RECURSIVE CommandsPerApp(_)
CommandsPerApp(cmds) ==
    IF cmds = <<>> THEN <<>>
    ELSE LET rest == CommandsPerApp(SubSeq(cmds, 1, Len(cmds) - 1))
             e == cmds[Len(cmds)]
             app_name == AppName(e.details)
             group == IF HasKey(rest, app_name) THEN Lookup(rest, app_name) ELSE <<>>
         IN  SetKey(rest, app_name, SetKey(group, e.name, e.details))

\* The children of an app's menu: the group's commands in the dict's order.
RECURSIVE AppMenuChildren(_)
AppMenuChildren(group) ==
    IF group = <<>> THEN <<>>
    ELSE <<_create_menu_item(group[1].name, group[1].details.callback,
                             group[1].details.properties.icon)>>
         \o AppMenuChildren(Tail(group))

\* AppsLoop with a menu for every app, whatever its number of commands.
RECURSIVE AppsLoopNoFlatten(_, _, _)
AppsLoopNoFlatten(menu, commands_per_app, app_names) ==
    IF app_names = <<>> THEN menu
    ELSE AppsLoopNoFlatten(
             Append(menu, [type |-> "menu", title |-> Head(app_names),
                           children |->
                               AppMenuChildren(Lookup(commands_per_app, Head(app_names)))]),
             commands_per_app, Tail(app_names))

\* The loop over sorted(commands_per_app).
RECURSIVE AppsLoop(_, _, _)
AppsLoop(menu, commands_per_app, app_names) ==
    IF app_names = <<>> THEN menu
    ELSE LET group == Lookup(commands_per_app, Head(app_names))
             added ==
                 IF Len(group) = 1
                 THEN _add_command_to_menu(menu, group[1].name, group[1].details)
                 ELSE Append(menu, [type |-> "menu", title |-> Head(app_names),
                                    children |-> AppMenuChildren(group)])
         IN  AppsLoop(added, commands_per_app, Tail(app_names))

\* _add_menu_actions over the groups in the order they were created.
_add_menu_actions_unsorted(menu, cmds) ==
    LET commands_per_app == CommandsPerApp(cmds)
    IN  AppsLoop(menu, commands_per_app, Keys(commands_per_app))

\* _add_menu_actions with Other Items kept for the end.
_add_menu_actions_other_last(menu, cmds) ==
    LET commands_per_app == CommandsPerApp(cmds)
        named == SelectSeq(SortedStr(Keys(commands_per_app)), LAMBDA a : a # "Other Items")
    IN  AppsLoop(menu, commands_per_app,
                 IF HasKey(commands_per_app, "Other Items")
                 THEN Append(named, "Other Items") ELSE named)

\* TestEngine._add_menu_actions: the menu with the commands added.
_add_menu_actions(menu, cmds) ==
    LET commands_per_app == CommandsPerApp(cmds)
    IN  AppsLoop(menu, commands_per_app, SortedStr(Keys(commands_per_app)))

\* ------------------------------------------------------------------ rendering
\* The toolkit's menu: QMenu(title), and addSeparator, addMenu and addAction on it.
QMenu(title) == [title |-> title, entries |-> <<>>]

addSeparator(menu) == [menu EXCEPT !.entries = Append(@, [kind |-> "separator"])]

addMenu(menu, sub_menu) ==
    [menu EXCEPT !.entries = Append(@, [kind |-> "menu", menu |-> sub_menu])]

\* addAction, triggered.connect and, for an item with an icon, setIcon.
addAction(menu, item) ==
    [menu EXCEPT !.entries = Append(@,
        [kind |-> "action", text |-> item.title, triggered |-> item.callback,
         icon |-> IF item.icon # None THEN item.icon ELSE "QIcon()"])]

\* TestEngine._build_menu: parent_menu with the items added to it.
RECURSIVE _build_menu(_, _)
_build_menu(menu_items, parent_menu) ==
    IF menu_items = <<>> THEN parent_menu
    ELSE LET item == Head(menu_items)
             added ==
                 IF item.type = "separator" THEN addSeparator(parent_menu)
                 ELSE IF item.type = "menu"
                      THEN addMenu(parent_menu,
                                   _build_menu(item.children, QMenu(item.title)))
                      ELSE addAction(parent_menu, item)
         IN  _build_menu(Tail(menu_items), added)

\* ------------------------------------------------------------------ the build
\* The commands the per-app groups are built from: the getattr on None finds no
\* filter_menu_commands, so the default is called, on self.commands.
FilteredCommands(registry, local_copy) == registry

\* The top-level menu once the context menu is in place.
ContextSection(ctx, context_menu_items_) ==
    _add_separator(<<_generate_context_menu(ctx, context_menu_items_)>>)

\* FavoritesSection without the Separator that closes the favorites.
FavoritesSectionOpen(menu, favorites_) ==
    IF favorites_ # <<>>
    THEN _add_separator(menu) \o favorites_
    ELSE menu

\* The top-level menu once the favorites are in place.
FavoritesSection(menu, favorites_) ==
    IF favorites_ # <<>>
    THEN _add_separator(_add_separator(menu) \o favorites_)
    ELSE menu

\* __build_menu with the context menu items extracted before the favorites.
__build_menu_context_first(registry, favs, ctx) ==
    LET copy == registry
        cm == _extract_context_menu_items(copy)
        fav == _extract_favorites(cm.commands, favs)
        cmds == FilteredCommands(registry, fav.commands)
        section == FavoritesSection(ContextSection(ctx, cm.items), fav.favorites)
    IN  [working |-> fav.commands,
         favorites |-> fav.favorites,
         context_menu_items |-> cm.items,
         warnings |-> fav.warnings,
         menus |-> _add_menu_actions(section, cmds)]

\* TestEngine.__build_menu, up to the call of _build_menu: its locals.
__build_menu(registry, favs, ctx) ==
    LET copy == registry
        fav == _extract_favorites(copy, favs)
        cm == _extract_context_menu_items(fav.commands)
        cmds == FilteredCommands(registry, cm.commands)
        section == FavoritesSection(ContextSection(ctx, cm.items), fav.favorites)
    IN  [working |-> cm.commands,
         favorites |-> fav.favorites,
         context_menu_items |-> cm.items,
         warnings |-> fav.warnings,
         menus |-> _add_menu_actions(section, cmds)]

Init ==
    /\ commands \in Registries
    /\ menu_favourites \in FavSettings
    /\ context \in Contexts
    /\ pc = "init"
    /\ working = <<>>
    /\ favorites = <<>>
    /\ context_menu_items = <<>>
    /\ menus = <<>>
    /\ warnings = <<>>
    /\ menu_bar = <<>>

\* TestEngine.post_app_init: builds the menu tree and hands it to _build_menu.
post_app_init ==
    /\ pc = "init"
    /\ \E b \in {__build_menu(commands, menu_favourites, context)} :
          \E shotgun \in {_build_menu(b.menus, QMenu("Shotgun"))} :
              /\ working' = b.working
              /\ favorites' = b.favorites
              /\ context_menu_items' = b.context_menu_items
              /\ warnings' = b.warnings
              /\ menus' = b.menus
              /\ menu_bar' = Append(menu_bar, shotgun)
    /\ pc' = "done"
    /\ UNCHANGED <<commands, menu_favourites, context>>

Next == post_app_init

Spec == Init /\ [][Next]_vars

\* ------------------------------------------------------------------ vocabulary
Done == pc = "done"

Range(f) == { f[i] : i \in DOMAIN f }

\* The Action of a command: its name as title, its icon and its callback.
ActionOf(e) ==
    [type |-> "action", title |-> e.name, icon |-> e.details.properties.icon,
     callback |-> e.details.callback]

Separator == [type |-> "separator"]

\* Every Action of a tree, sub-menus included, left to right.
RECURSIVE AllActions(_)
AllActions(nodes) ==
    IF nodes = <<>> THEN <<>>
    ELSE LET n == Head(nodes)
             here == IF n.type = "action" THEN <<n>>
                     ELSE IF n.type = "menu" THEN AllActions(n.children)
                     ELSE <<>>
         IN  here \o AllActions(Tail(nodes))

\* How many Actions of the tree show the command.
Occurrences(nodes, e) ==
    LET all == AllActions(nodes)
    IN  Cardinality({ i \in 1..Len(all) : all[i] = ActionOf(e) })

\* The positions of the Separators of a top-level sequence.
TopSeparatorsOf(ms) == { i \in 1..Len(ms) : ms[i].type = "separator" }

TopSeparators == TopSeparatorsOf(menus)

\* The per-app part: what follows the last Separator of the top level.
PerAppStartOf(ms) ==
    IF TopSeparatorsOf(ms) = {} THEN 2
    ELSE 1 + CHOOSE i \in TopSeparatorsOf(ms) : \A j \in TopSeparatorsOf(ms) : j <= i

PerAppStart == PerAppStartOf(menus)

PerApp == SubSeq(menus, PerAppStart, Len(menus))

\* The group of a per-app entry: a Submenu's title, a bare Action's app name.
GroupOf(entry) ==
    IF entry.type = "menu" THEN entry.title
    ELSE AppName(Lookup(commands, entry.title))

\* The commands of a group that the per-app part shows.
GroupMembers(g) ==
    { e \in Range(commands) : AppName(e.details) = g /\ Occurrences(PerApp, e) >= 1 }

\* A tree with the children of its per-app Submenus taken as a set.
UpToGroupOrder(ms) ==
    [i \in 1..Len(ms) |->
        IF i >= PerAppStartOf(ms) /\ ms[i].type = "menu"
        THEN [type |-> "menu", title |-> ms[i].title,
              size |-> Len(ms[i].children), children |-> Range(ms[i].children)]
        ELSE ms[i]]

\* Rule i names command e.
RuleNames(i, e) ==
    /\ e.name = menu_favourites[i].name
    /\ e.details.properties.app # None
    /\ \E a \in DOMAIN apps :
          a = menu_favourites[i].app_instance /\ apps[a] = e.details.properties.app

\* Rule i finds its command: the registry holds it and no earlier rule took it.
Matches(i) ==
    /\ \E e \in Range(commands) : RuleNames(i, e)
    /\ \A j \in 1..(i - 1) : menu_favourites[j] # menu_favourites[i]

Matching == { i \in 1..Len(menu_favourites) : Matches(i) }
Missing == { i \in 1..Len(menu_favourites) : ~Matches(i) }

\* The commands flagged as context-menu items.
Flagged == { e \in Range(commands) : e.details.properties.type = "context_menu" }

\* The commands some rule names.
Favoured == { e \in Range(commands) : \E i \in 1..Len(menu_favourites) : RuleNames(i, e) }

\* The registry's other iteration orders.
Reorderings ==
    { r \in [1..Len(commands) -> Range(commands)] : Range(r) = Range(commands) }

\* ------------------------------------------------------------------ C1
\* C1: once a non-empty registry is built, every command shows as an Action
\* exactly once in the whole tree (context section, favorites and per-app groups
\* together).
C1_Partition ==
    (Done /\ commands # <<>>) =>
        \A e \in Range(commands) : Occurrences(menus, e) = 1

\* ------------------------------------------------------------------ C2
\* C2: the first element of the built top-level sequence is the context Submenu,
\* titled with the context label, whatever the commands, the favourites and the
\* filesystem locations; it is a Submenu even with no context item.
C2_ContextFirst ==
    Done =>
        /\ Len(menus) >= 1
        /\ menus[1].type = "menu"
        /\ menus[1].title = context.label
        /\ DOMAIN menus[1] = {"type", "title", "children"}

\* C2 witness: a build with commands but no context item and no filesystem
\* location: the context Submenu holds one Action and one Separator.
C2_Witness ==
    /\ Done
    /\ commands # <<>>
    /\ context_menu_items = <<>>
    /\ context.filesystem_locations = <<>>
    /\ Len(menus[1].children) = 2

\* ------------------------------------------------------------------ C3
\* C3 as stated: with favorites extracted, the top level is the context Submenu,
\* a Separator, the favorites, a Separator (two Separators in all); with none,
\* the top level holds no Separator.
C3_AsStated ==
    Done =>
        LET n == Len(favorites)
        IN  IF n > 0
            THEN /\ Len(menus) >= n + 3
                 /\ menus[2] = Separator
                 /\ SubSeq(menus, 3, n + 2) = favorites
                 /\ menus[n + 3] = Separator
                 /\ Cardinality(TopSeparators) = 2
            ELSE TopSeparators = {}

\* C3 amended: a Separator always follows the context Submenu; with favorites
\* extracted a second Separator, the favorites and one more Separator follow
\* (three Separators in all), with none that Separator is the only one; what
\* is left of the top level holds no Separator.
C3_Framing ==
    Done =>
        LET n == Len(favorites)
        IN  /\ Len(menus) >= 2
            /\ menus[2] = Separator
            /\ IF n > 0
               THEN /\ Len(menus) >= n + 4
                    /\ menus[3] = Separator
                    /\ SubSeq(menus, 4, n + 3) = favorites
                    /\ menus[n + 4] = Separator
                    /\ TopSeparators = {2, 3, n + 4}
               ELSE TopSeparators = {2}

\* C3 witness: a build that extracted two favorites and has per-app entries.
C3_Witness ==
    /\ Done
    /\ Len(favorites) = 2
    /\ Len(menus) > Len(favorites) + 4

\* ------------------------------------------------------------------ C4
\* The children the context Submenu is to have, given the commands that go to
\* the context section: the fixed Actions, a Separator, the commands by name.
ContextLayout(children, S) ==
    LET fixed == IF context.filesystem_locations # <<>> THEN 2 ELSE 1
        items == SubSeq(children, fixed + 2, Len(children))
    IN  /\ Len(children) = fixed + 1 + Cardinality(S)
        /\ children[1] = [type |-> "action", title |-> "Jump to Shotgun",
                          icon |-> None, callback |-> "_jump_to_sg"]
        /\ fixed = 2 =>
              children[2] = [type |-> "action", title |-> "Jump to File System",
                             icon |-> None, callback |-> "_jump_to_fs"]
        /\ children[fixed + 1] = Separator
        /\ Range(items) = { ActionOf(e) : e \in S }
        /\ \A i, j \in 1..Len(items) : i < j => StrLess(items[i].title, items[j].title)

\* C4 as stated: the context Submenu lists every command flagged as a
\* context-menu item.
C4_AsStated == Done => ContextLayout(menus[1].children, Flagged)

\* C4 amended: the children of the context Submenu are "Jump to Shotgun", "Jump
\* to File System" iff the context has filesystem locations, one Separator, then
\* the flagged commands that no favourite rule names, by name ascending.
C4_ContextLayout == Done => ContextLayout(menus[1].children, Flagged \ Favoured)

\* C4 witness: two context items that the registry yields in descending order
\* of name, and a flagged command taken as a favorite.
C4_Witness ==
    /\ Done
    /\ Len(context_menu_items) = 2
    /\ \E i, j \in 1..Len(commands) :
          /\ i < j
          /\ {commands[i], commands[j]} \subseteq Flagged \ Favoured
          /\ StrLess(commands[j].name, commands[i].name)
    /\ Flagged \cap Favoured # {}

\* ------------------------------------------------------------------ C5
\* The rules of a set of positions, in the order of the setting.
RECURSIVE RulesAt(_, _)
RulesAt(I, from) ==
    IF from > Len(menu_favourites) THEN <<>>
    ELSE (IF from \in I THEN <<menu_favourites[from]>> ELSE <<>>) \o RulesAt(I, from + 1)

\* C5: a build with rules that find no command still ends with its tree handed
\* to the menu bar; it logs one warning per rule that finds no command when it
\* is processed (a repeated rule included), in rule order, and none for the
\* others; the favorites hold one Action per rule that found its command; when
\* no rule finds one, there is no favorites section.
C5_MissNonFatal ==
    /\ pc \in {"init", "done"}
    /\ Done =>
          /\ Len(menu_bar) = 1
          /\ Len(menu_bar[1].entries) = Len(menus)
          /\ Len(warnings) = Cardinality(Missing)
          /\ warnings = [k \in 1..Len(warnings) |->
                <<"Could not add favorite app %s:%s",
                  RulesAt(Missing, 1)[k].app_instance, RulesAt(Missing, 1)[k].name>>]
          /\ Len(favorites) = Cardinality(Matching)
          /\ Matching = {} =>
                /\ favorites = <<>>
                /\ \A i \in PerAppStart..Len(menus) :
                      i > 2 /\ menus[i].type # "separator"
                /\ PerAppStart = 3

\* C5 witness: a build whose two rules name the same command of the registry:
\* the second one misses, the first does not.
C5_Witness ==
    /\ Done
    /\ Len(menu_favourites) = 2
    /\ menu_favourites[1] = menu_favourites[2]
    /\ Matching = {1}
    /\ Len(warnings) = 1

\* ------------------------------------------------------------------ C6
\* C6: the favorites of the top level are the commands of the rules that found
\* one, in the order of the rules.
C6_FavoritesOrder ==
    Done =>
        LET hits == RulesAt(Matching, 1)
        IN  /\ Len(favorites) = Len(hits)
            /\ \A k \in 1..Len(hits) :
                  /\ favorites[k].title = hits[k].name
                  /\ \E e \in Range(commands) : favorites[k] = ActionOf(e)
            /\ favorites # <<>> => SubSeq(menus, 4, Len(favorites) + 3) = favorites

\* C6 witness: two rules find their commands, which the registry yields in the
\* other order and whose names sort in the other order.
C6_Witness ==
    /\ Done
    /\ Len(favorites) = 2
    /\ StrLess(favorites[2].title, favorites[1].title)
    /\ \E i, j \in 1..Len(commands) :
          /\ i < j
          /\ commands[i].name = favorites[2].title
          /\ commands[j].name = favorites[1].title

\* ------------------------------------------------------------------ C10
\* C10 as stated: a rule that names a flagged command is a miss: the command is
\* no favorite, it shows in the context section and a warning is logged for the
\* rule.
C10_AsStated ==
    Done =>
        \A i \in 1..Len(menu_favourites) : \A e \in Flagged :
            RuleNames(i, e) =>
                /\ ActionOf(e) \notin Range(favorites)
                /\ ActionOf(e) \in Range(menus[1].children)
                /\ <<"Could not add favorite app %s:%s",
                     menu_favourites[i].app_instance, menu_favourites[i].name>>
                      \in Range(warnings)

\* C10 amended: the favorites are extracted before the context items, so a rule
\* that names a flagged command finds it: the command is a favorite, it does not
\* show in the context section, and a warning is logged for the rule only if an
\* earlier rule names the same command.
C10_FavoriteBeforeContext ==
    Done =>
        \A i \in 1..Len(menu_favourites) : \A e \in Flagged :
            RuleNames(i, e) =>
                /\ ActionOf(e) \in Range(favorites)
                /\ ActionOf(e) \notin Range(menus[1].children)
                /\ ActionOf(e) \notin Range(context_menu_items)
                /\ (<<"Could not add favorite app %s:%s",
                      menu_favourites[i].app_instance, menu_favourites[i].name>>
                       \in Range(warnings))
                   <=> (\E j \in 1..Len(menu_favourites) :
                           menu_favourites[j] = menu_favourites[i] /\ j # i)

\* C10 witness: a rule names a flagged command, and another command is a
\* context item.
C10_Witness ==
    /\ Done
    /\ \E i \in 1..Len(menu_favourites) : \E e \in Flagged : RuleNames(i, e)
    /\ context_menu_items # <<>>
    /\ warnings = <<>>

\* ------------------------------------------------------------------ C7
\* C7: in the per-app part, a group of one command is a bare Action of the top
\* level, a group of two or more is one Submenu titled with the group's name
\* that holds the group's commands; no per-app Submenu has fewer than two
\* children.
C7_Flattening ==
    Done =>
        /\ \A i \in 1..Len(PerApp) :
              /\ PerApp[i].type \in {"action", "menu"}
              /\ PerApp[i].type = "menu" => Len(PerApp[i].children) >= 2
              /\ PerApp[i].type = "action" =>
                    \E e \in Range(commands) : PerApp[i] = ActionOf(e)
        /\ \A c \in Range(commands) :
              LET g == AppName(c.details)
                  members == GroupMembers(g)
                  at == { i \in 1..Len(PerApp) : GroupOf(PerApp[i]) = g }
              IN  /\ Cardinality(members) = 1 =>
                        \E i \in at : /\ at = {i}
                                      /\ \E e \in members : PerApp[i] = ActionOf(e)
                  /\ Cardinality(members) >= 2 =>
                        \E i \in at :
                            /\ at = {i}
                            /\ PerApp[i].type = "menu"
                            /\ PerApp[i].title = g
                            /\ Len(PerApp[i].children) = Cardinality(members)
                            /\ Range(PerApp[i].children) = { ActionOf(e) : e \in members }

\* C7 witness: a per-app part with a bare Action and a Submenu of two.
C7_Witness ==
    /\ Done
    /\ \E i, j \in 1..Len(PerApp) :
          /\ PerApp[i].type = "action"
          /\ PerApp[j].type = "menu"
          /\ Len(PerApp[j].children) = 2

\* ------------------------------------------------------------------ C8
\* C8: the per-app entries are in ascending order of their group's name, one per
\* group, "Other Items" at the place of its name.
C8_GroupOrder ==
    Done =>
        /\ \A i, j \in 1..Len(PerApp) :
              i < j => StrLess(GroupOf(PerApp[i]), GroupOf(PerApp[j]))
        /\ { GroupOf(PerApp[i]) : i \in 1..Len(PerApp) }
              = { AppName(e.details) :
                    e \in { c \in Range(commands) : Occurrences(PerApp, c) >= 1 } }

\* C8 witness: three groups, "Other Items" between the two apps, from a
\* registry that yields them in another order.
C8_Witness ==
    /\ Done
    /\ Len(PerApp) = 3
    /\ GroupOf(PerApp[1]) = "Loader"
    /\ GroupOf(PerApp[2]) = "Other Items"
    /\ GroupOf(PerApp[3]) = "Publisher"
    /\ AppName(commands[1].details) = "Publisher"
    /\ AppName(commands[3].details) = "Other Items"

\* ------------------------------------------------------------------ C9
\* C9 as stated: the build of the same commands in any other iteration order of
\* the registry gives the same tree.
C9_AsStated ==
    Done =>
        \A r \in Reorderings : __build_menu(r, menu_favourites, context).menus = menus

\* C9 amended: the build of the same commands in any other iteration order of
\* the registry gives the same tree but for the order of the children of the
\* per-app Submenus, which is the registry's.
C9_Determinism ==
    Done =>
        LET tree == UpToGroupOrder(menus)
        IN  \A r \in Reorderings \ {commands} :
                UpToGroupOrder(__build_menu(r, menu_favourites, context).menus) = tree

\* C9 witness: a build with a favorite, a context item and a per-app Submenu
\* whose registry has another iteration order that gives another tree.
C9_Witness ==
    /\ Done
    /\ favorites # <<>>
    /\ context_menu_items # <<>>
    /\ \E r \in Reorderings : __build_menu(r, menu_favourites, context).menus # menus

====
